---- MODULE Spec2Model ----
(***************************************************************************)
(* A model of fuefit's command-line entry point (fuefit/main.py): the two  *)
(* argument-type parsers key_value_pair and column_specifier, the option   *)
(* cardinality check validate_opts, the model builder                      *)
(* build_and_validate_model and the error handling of main.                *)
(*                                                                         *)
(* Text is modelled as a sequence of Unicode code points, so that the      *)
(* regular expressions of the source are computed character by character. *)
(***************************************************************************)
EXTENDS Integers, Sequences, FiniteSets, TLC

VARIABLES
    DEBUG,      \* the module-level flag DEBUG of main.py
    pc,         \* position of the running call
    entry,      \* which function was called: "main", "build", "validate_opts", ...
    argv,       \* the command line handed to main, a sequence of words
    opts,       \* the options namespace (argparse's result, or the caller's)
    mdl,        \* the model document being built
    overrides,  \* the flattened (json_path, value) pairs of opts.m
    idx,        \* index of the next override to apply
    nvalidated, \* how many times validator.validate ran in this call
    outcome,    \* how the call ended
    returned,   \* what each call of validate_opts gave back to its direct caller
    arg,        \* the raw text handed to an argument-type parser
    parsed      \* what the argument-type parser produced for arg

vars == <<DEBUG, pc, entry, argv, opts, mdl, overrides, idx, nvalidated,
          outcome, returned, arg, parsed>>

-----------------------------------------------------------------------------
(* Bounds of the model. *)

\* longest raw text handed to key_value_pair
MaxKVLen == 5
\* longest raw text handed to column_specifier
MaxColLen == 6
\* most input files, and most occurrences of one related option, handed to
\* validate_opts
MaxFiles == 3
MaxOpt == 3
\* most calls of validate_opts a caller makes with the same namespace
MaxCalls == 2
\* most (path, value) pairs handed to build_and_validate_model
MaxOverlays == 2
\* most -i, most -f and most -m occurrences on a command line of main
MaxMainFiles == 2
MaxMainOcc == 2
MaxMainOverlays == 2

-----------------------------------------------------------------------------
(* Characters and text.  A character is its Unicode code point and a text  *)
(* (a Python str) is a sequence of characters.                             *)

\* the printable ASCII characters in code-point order: from the blank (32)
\* to the underscore (95), and from "a" (97) to the tilde (126)
PrintableLow ==
    <<" ", "!", "\"", "#", "$", "%", "&", "'", "(", ")", "*", "+", ",", "-",
      ".", "/", "0", "1", "2", "3", "4", "5", "6", "7", "8", "9", ":", ";",
      "<", "=", ">", "?", "@", "A", "B", "C", "D", "E", "F", "G", "H", "I",
      "J", "K", "L", "M", "N", "O", "P", "Q", "R", "S", "T", "U", "V", "W",
      "X", "Y", "Z", "[", "\\", "]", "^", "_">>
PrintableHigh ==
    <<"a", "b", "c", "d", "e", "f", "g", "h", "i", "j", "k", "l", "m", "n",
      "o", "p", "q", "r", "s", "t", "u", "v", "w", "x", "y", "z", "{", "|",
      "}", "~">>

\* ord(ch) of a printable ASCII character, of the tab, the line feed, the
\* form feed and the carriage return
OrdTable ==
    [ch \in {PrintableLow[i] : i \in 1..Len(PrintableLow)} |->
        31 + (CHOOSE i \in 1..Len(PrintableLow) : PrintableLow[i] = ch)]
    @@ [ch \in {PrintableHigh[i] : i \in 1..Len(PrintableHigh)} |->
        96 + (CHOOSE i \in 1..Len(PrintableHigh) : PrintableHigh[i] = ch)]
    @@ ("\t" :> 9) @@ ("\n" :> 10) @@ ("\f" :> 12) @@ ("\r" :> 13)
Ord(ch) == OrdTable[ch]

\* the text spelled by a sequence of one-character strings
Text(spelled) == [i \in 1..Len(spelled) |-> Ord(spelled[i])]

\* the characters the source and the libraries it calls name
LineFeed == Ord("\n")
Blank == Ord(" ")
Equals == Ord("=")
LeftParen == Ord("(")
RightParen == Ord(")")
Slash == Ord("/")
Tilde == Ord("~")
Minus == Ord("-")
Dot == Ord(".")
Underscore == Ord("_")
Zero == Ord("0")
One == Ord("1")
Nine == Ord("9")

\* c lies in one of the closed ranges of the table
InRanges(c, table) == \E r \in table : r[1] <= c /\ c <= r[2]

\* the characters outside ASCII for which str.isalnum() holds, as closed
\* ranges of code points (Unicode 14.0.0, the database of CPython 3.11)
UnicodeAlnum == {
    <<170, 170>>, <<178, 179>>, <<181, 181>>, <<185, 186>>, <<188, 190>>,
    <<192, 214>>, <<216, 246>>, <<248, 705>>, <<710, 721>>, <<736, 740>>,
    <<748, 748>>, <<750, 750>>, <<880, 884>>, <<886, 887>>, <<890, 893>>,
    <<895, 895>>, <<902, 902>>, <<904, 906>>, <<908, 908>>, <<910, 929>>,
    <<931, 1013>>, <<1015, 1153>>, <<1162, 1327>>, <<1329, 1366>>,
    <<1369, 1369>>, <<1376, 1416>>, <<1488, 1514>>, <<1519, 1522>>,
    <<1568, 1610>>, <<1632, 1641>>, <<1646, 1647>>, <<1649, 1747>>,
    <<1749, 1749>>, <<1765, 1766>>, <<1774, 1788>>, <<1791, 1791>>,
    <<1808, 1808>>, <<1810, 1839>>, <<1869, 1957>>, <<1969, 1969>>,
    <<1984, 2026>>, <<2036, 2037>>, <<2042, 2042>>, <<2048, 2069>>,
    <<2074, 2074>>, <<2084, 2084>>, <<2088, 2088>>, <<2112, 2136>>,
    <<2144, 2154>>, <<2160, 2183>>, <<2185, 2190>>, <<2208, 2249>>,
    <<2308, 2361>>, <<2365, 2365>>, <<2384, 2384>>, <<2392, 2401>>,
    <<2406, 2415>>, <<2417, 2432>>, <<2437, 2444>>, <<2447, 2448>>,
    <<2451, 2472>>, <<2474, 2480>>, <<2482, 2482>>, <<2486, 2489>>,
    <<2493, 2493>>, <<2510, 2510>>, <<2524, 2525>>, <<2527, 2529>>,
    <<2534, 2545>>, <<2548, 2553>>, <<2556, 2556>>, <<2565, 2570>>,
    <<2575, 2576>>, <<2579, 2600>>, <<2602, 2608>>, <<2610, 2611>>,
    <<2613, 2614>>, <<2616, 2617>>, <<2649, 2652>>, <<2654, 2654>>,
    <<2662, 2671>>, <<2674, 2676>>, <<2693, 2701>>, <<2703, 2705>>,
    <<2707, 2728>>, <<2730, 2736>>, <<2738, 2739>>, <<2741, 2745>>,
    <<2749, 2749>>, <<2768, 2768>>, <<2784, 2785>>, <<2790, 2799>>,
    <<2809, 2809>>, <<2821, 2828>>, <<2831, 2832>>, <<2835, 2856>>,
    <<2858, 2864>>, <<2866, 2867>>, <<2869, 2873>>, <<2877, 2877>>,
    <<2908, 2909>>, <<2911, 2913>>, <<2918, 2927>>, <<2929, 2935>>,
    <<2947, 2947>>, <<2949, 2954>>, <<2958, 2960>>, <<2962, 2965>>,
    <<2969, 2970>>, <<2972, 2972>>, <<2974, 2975>>, <<2979, 2980>>,
    <<2984, 2986>>, <<2990, 3001>>, <<3024, 3024>>, <<3046, 3058>>,
    <<3077, 3084>>, <<3086, 3088>>, <<3090, 3112>>, <<3114, 3129>>,
    <<3133, 3133>>, <<3160, 3162>>, <<3165, 3165>>, <<3168, 3169>>,
    <<3174, 3183>>, <<3192, 3198>>, <<3200, 3200>>, <<3205, 3212>>,
    <<3214, 3216>>, <<3218, 3240>>, <<3242, 3251>>, <<3253, 3257>>,
    <<3261, 3261>>, <<3293, 3294>>, <<3296, 3297>>, <<3302, 3311>>,
    <<3313, 3314>>, <<3332, 3340>>, <<3342, 3344>>, <<3346, 3386>>,
    <<3389, 3389>>, <<3406, 3406>>, <<3412, 3414>>, <<3416, 3425>>,
    <<3430, 3448>>, <<3450, 3455>>, <<3461, 3478>>, <<3482, 3505>>,
    <<3507, 3515>>, <<3517, 3517>>, <<3520, 3526>>, <<3558, 3567>>,
    <<3585, 3632>>, <<3634, 3635>>, <<3648, 3654>>, <<3664, 3673>>,
    <<3713, 3714>>, <<3716, 3716>>, <<3718, 3722>>, <<3724, 3747>>,
    <<3749, 3749>>, <<3751, 3760>>, <<3762, 3763>>, <<3773, 3773>>,
    <<3776, 3780>>, <<3782, 3782>>, <<3792, 3801>>, <<3804, 3807>>,
    <<3840, 3840>>, <<3872, 3891>>, <<3904, 3911>>, <<3913, 3948>>,
    <<3976, 3980>>, <<4096, 4138>>, <<4159, 4169>>, <<4176, 4181>>,
    <<4186, 4189>>, <<4193, 4193>>, <<4197, 4198>>, <<4206, 4208>>,
    <<4213, 4225>>, <<4238, 4238>>, <<4240, 4249>>, <<4256, 4293>>,
    <<4295, 4295>>, <<4301, 4301>>, <<4304, 4346>>, <<4348, 4680>>,
    <<4682, 4685>>, <<4688, 4694>>, <<4696, 4696>>, <<4698, 4701>>,
    <<4704, 4744>>, <<4746, 4749>>, <<4752, 4784>>, <<4786, 4789>>,
    <<4792, 4798>>, <<4800, 4800>>, <<4802, 4805>>, <<4808, 4822>>,
    <<4824, 4880>>, <<4882, 4885>>, <<4888, 4954>>, <<4969, 4988>>,
    <<4992, 5007>>, <<5024, 5109>>, <<5112, 5117>>, <<5121, 5740>>,
    <<5743, 5759>>, <<5761, 5786>>, <<5792, 5866>>, <<5870, 5880>>,
    <<5888, 5905>>, <<5919, 5937>>, <<5952, 5969>>, <<5984, 5996>>,
    <<5998, 6000>>, <<6016, 6067>>, <<6103, 6103>>, <<6108, 6108>>,
    <<6112, 6121>>, <<6128, 6137>>, <<6160, 6169>>, <<6176, 6264>>,
    <<6272, 6276>>, <<6279, 6312>>, <<6314, 6314>>, <<6320, 6389>>,
    <<6400, 6430>>, <<6470, 6509>>, <<6512, 6516>>, <<6528, 6571>>,
    <<6576, 6601>>, <<6608, 6618>>, <<6656, 6678>>, <<6688, 6740>>,
    <<6784, 6793>>, <<6800, 6809>>, <<6823, 6823>>, <<6917, 6963>>,
    <<6981, 6988>>, <<6992, 7001>>, <<7043, 7072>>, <<7086, 7141>>,
    <<7168, 7203>>, <<7232, 7241>>, <<7245, 7293>>, <<7296, 7304>>,
    <<7312, 7354>>, <<7357, 7359>>, <<7401, 7404>>, <<7406, 7411>>,
    <<7413, 7414>>, <<7418, 7418>>, <<7424, 7615>>, <<7680, 7957>>,
    <<7960, 7965>>, <<7968, 8005>>, <<8008, 8013>>, <<8016, 8023>>,
    <<8025, 8025>>, <<8027, 8027>>, <<8029, 8029>>, <<8031, 8061>>,
    <<8064, 8116>>, <<8118, 8124>>, <<8126, 8126>>, <<8130, 8132>>,
    <<8134, 8140>>, <<8144, 8147>>, <<8150, 8155>>, <<8160, 8172>>,
    <<8178, 8180>>, <<8182, 8188>>, <<8304, 8305>>, <<8308, 8313>>,
    <<8319, 8329>>, <<8336, 8348>>, <<8450, 8450>>, <<8455, 8455>>,
    <<8458, 8467>>, <<8469, 8469>>, <<8473, 8477>>, <<8484, 8484>>,
    <<8486, 8486>>, <<8488, 8488>>, <<8490, 8493>>, <<8495, 8505>>,
    <<8508, 8511>>, <<8517, 8521>>, <<8526, 8526>>, <<8528, 8585>>,
    <<9312, 9371>>, <<9450, 9471>>, <<10102, 10131>>, <<11264, 11492>>,
    <<11499, 11502>>, <<11506, 11507>>, <<11517, 11517>>, <<11520, 11557>>,
    <<11559, 11559>>, <<11565, 11565>>, <<11568, 11623>>, <<11631, 11631>>,
    <<11648, 11670>>, <<11680, 11686>>, <<11688, 11694>>, <<11696, 11702>>,
    <<11704, 11710>>, <<11712, 11718>>, <<11720, 11726>>, <<11728, 11734>>,
    <<11736, 11742>>, <<11823, 11823>>, <<12293, 12295>>, <<12321, 12329>>,
    <<12337, 12341>>, <<12344, 12348>>, <<12353, 12438>>, <<12445, 12447>>,
    <<12449, 12538>>, <<12540, 12543>>, <<12549, 12591>>, <<12593, 12686>>,
    <<12690, 12693>>, <<12704, 12735>>, <<12784, 12799>>, <<12832, 12841>>,
    <<12872, 12879>>, <<12881, 12895>>, <<12928, 12937>>, <<12977, 12991>>,
    <<13312, 19903>>, <<19968, 42124>>, <<42192, 42237>>, <<42240, 42508>>,
    <<42512, 42539>>, <<42560, 42606>>, <<42623, 42653>>, <<42656, 42735>>,
    <<42775, 42783>>, <<42786, 42888>>, <<42891, 42954>>, <<42960, 42961>>,
    <<42963, 42963>>, <<42965, 42969>>, <<42994, 43009>>, <<43011, 43013>>,
    <<43015, 43018>>, <<43020, 43042>>, <<43056, 43061>>, <<43072, 43123>>,
    <<43138, 43187>>, <<43216, 43225>>, <<43250, 43255>>, <<43259, 43259>>,
    <<43261, 43262>>, <<43264, 43301>>, <<43312, 43334>>, <<43360, 43388>>,
    <<43396, 43442>>, <<43471, 43481>>, <<43488, 43492>>, <<43494, 43518>>,
    <<43520, 43560>>, <<43584, 43586>>, <<43588, 43595>>, <<43600, 43609>>,
    <<43616, 43638>>, <<43642, 43642>>, <<43646, 43695>>, <<43697, 43697>>,
    <<43701, 43702>>, <<43705, 43709>>, <<43712, 43712>>, <<43714, 43714>>,
    <<43739, 43741>>, <<43744, 43754>>, <<43762, 43764>>, <<43777, 43782>>,
    <<43785, 43790>>, <<43793, 43798>>, <<43808, 43814>>, <<43816, 43822>>,
    <<43824, 43866>>, <<43868, 43881>>, <<43888, 44002>>, <<44016, 44025>>,
    <<44032, 55203>>, <<55216, 55238>>, <<55243, 55291>>, <<63744, 64109>>,
    <<64112, 64217>>, <<64256, 64262>>, <<64275, 64279>>, <<64285, 64285>>,
    <<64287, 64296>>, <<64298, 64310>>, <<64312, 64316>>, <<64318, 64318>>,
    <<64320, 64321>>, <<64323, 64324>>, <<64326, 64433>>, <<64467, 64829>>,
    <<64848, 64911>>, <<64914, 64967>>, <<65008, 65019>>, <<65136, 65140>>,
    <<65142, 65276>>, <<65296, 65305>>, <<65313, 65338>>, <<65345, 65370>>,
    <<65382, 65470>>, <<65474, 65479>>, <<65482, 65487>>, <<65490, 65495>>,
    <<65498, 65500>>, <<65536, 65547>>, <<65549, 65574>>, <<65576, 65594>>,
    <<65596, 65597>>, <<65599, 65613>>, <<65616, 65629>>, <<65664, 65786>>,
    <<65799, 65843>>, <<65856, 65912>>, <<65930, 65931>>, <<66176, 66204>>,
    <<66208, 66256>>, <<66273, 66299>>, <<66304, 66339>>, <<66349, 66378>>,
    <<66384, 66421>>, <<66432, 66461>>, <<66464, 66499>>, <<66504, 66511>>,
    <<66513, 66517>>, <<66560, 66717>>, <<66720, 66729>>, <<66736, 66771>>,
    <<66776, 66811>>, <<66816, 66855>>, <<66864, 66915>>, <<66928, 66938>>,
    <<66940, 66954>>, <<66956, 66962>>, <<66964, 66965>>, <<66967, 66977>>,
    <<66979, 66993>>, <<66995, 67001>>, <<67003, 67004>>, <<67072, 67382>>,
    <<67392, 67413>>, <<67424, 67431>>, <<67456, 67461>>, <<67463, 67504>>,
    <<67506, 67514>>, <<67584, 67589>>, <<67592, 67592>>, <<67594, 67637>>,
    <<67639, 67640>>, <<67644, 67644>>, <<67647, 67669>>, <<67672, 67702>>,
    <<67705, 67742>>, <<67751, 67759>>, <<67808, 67826>>, <<67828, 67829>>,
    <<67835, 67867>>, <<67872, 67897>>, <<67968, 68023>>, <<68028, 68047>>,
    <<68050, 68096>>, <<68112, 68115>>, <<68117, 68119>>, <<68121, 68149>>,
    <<68160, 68168>>, <<68192, 68222>>, <<68224, 68255>>, <<68288, 68295>>,
    <<68297, 68324>>, <<68331, 68335>>, <<68352, 68405>>, <<68416, 68437>>,
    <<68440, 68466>>, <<68472, 68497>>, <<68521, 68527>>, <<68608, 68680>>,
    <<68736, 68786>>, <<68800, 68850>>, <<68858, 68899>>, <<68912, 68921>>,
    <<69216, 69246>>, <<69248, 69289>>, <<69296, 69297>>, <<69376, 69415>>,
    <<69424, 69445>>, <<69457, 69460>>, <<69488, 69505>>, <<69552, 69579>>,
    <<69600, 69622>>, <<69635, 69687>>, <<69714, 69743>>, <<69745, 69746>>,
    <<69749, 69749>>, <<69763, 69807>>, <<69840, 69864>>, <<69872, 69881>>,
    <<69891, 69926>>, <<69942, 69951>>, <<69956, 69956>>, <<69959, 69959>>,
    <<69968, 70002>>, <<70006, 70006>>, <<70019, 70066>>, <<70081, 70084>>,
    <<70096, 70106>>, <<70108, 70108>>, <<70113, 70132>>, <<70144, 70161>>,
    <<70163, 70187>>, <<70272, 70278>>, <<70280, 70280>>, <<70282, 70285>>,
    <<70287, 70301>>, <<70303, 70312>>, <<70320, 70366>>, <<70384, 70393>>,
    <<70405, 70412>>, <<70415, 70416>>, <<70419, 70440>>, <<70442, 70448>>,
    <<70450, 70451>>, <<70453, 70457>>, <<70461, 70461>>, <<70480, 70480>>,
    <<70493, 70497>>, <<70656, 70708>>, <<70727, 70730>>, <<70736, 70745>>,
    <<70751, 70753>>, <<70784, 70831>>, <<70852, 70853>>, <<70855, 70855>>,
    <<70864, 70873>>, <<71040, 71086>>, <<71128, 71131>>, <<71168, 71215>>,
    <<71236, 71236>>, <<71248, 71257>>, <<71296, 71338>>, <<71352, 71352>>,
    <<71360, 71369>>, <<71424, 71450>>, <<71472, 71483>>, <<71488, 71494>>,
    <<71680, 71723>>, <<71840, 71922>>, <<71935, 71942>>, <<71945, 71945>>,
    <<71948, 71955>>, <<71957, 71958>>, <<71960, 71983>>, <<71999, 71999>>,
    <<72001, 72001>>, <<72016, 72025>>, <<72096, 72103>>, <<72106, 72144>>,
    <<72161, 72161>>, <<72163, 72163>>, <<72192, 72192>>, <<72203, 72242>>,
    <<72250, 72250>>, <<72272, 72272>>, <<72284, 72329>>, <<72349, 72349>>,
    <<72368, 72440>>, <<72704, 72712>>, <<72714, 72750>>, <<72768, 72768>>,
    <<72784, 72812>>, <<72818, 72847>>, <<72960, 72966>>, <<72968, 72969>>,
    <<72971, 73008>>, <<73030, 73030>>, <<73040, 73049>>, <<73056, 73061>>,
    <<73063, 73064>>, <<73066, 73097>>, <<73112, 73112>>, <<73120, 73129>>,
    <<73440, 73458>>, <<73648, 73648>>, <<73664, 73684>>, <<73728, 74649>>,
    <<74752, 74862>>, <<74880, 75075>>, <<77712, 77808>>, <<77824, 78894>>,
    <<82944, 83526>>, <<92160, 92728>>, <<92736, 92766>>, <<92768, 92777>>,
    <<92784, 92862>>, <<92864, 92873>>, <<92880, 92909>>, <<92928, 92975>>,
    <<92992, 92995>>, <<93008, 93017>>, <<93019, 93025>>, <<93027, 93047>>,
    <<93053, 93071>>, <<93760, 93846>>, <<93952, 94026>>, <<94032, 94032>>,
    <<94099, 94111>>, <<94176, 94177>>, <<94179, 94179>>, <<94208, 100343>>,
    <<100352, 101589>>, <<101632, 101640>>, <<110576, 110579>>,
    <<110581, 110587>>, <<110589, 110590>>, <<110592, 110882>>,
    <<110928, 110930>>, <<110948, 110951>>, <<110960, 111355>>,
    <<113664, 113770>>, <<113776, 113788>>, <<113792, 113800>>,
    <<113808, 113817>>, <<119520, 119539>>, <<119648, 119672>>,
    <<119808, 119892>>, <<119894, 119964>>, <<119966, 119967>>,
    <<119970, 119970>>, <<119973, 119974>>, <<119977, 119980>>,
    <<119982, 119993>>, <<119995, 119995>>, <<119997, 120003>>,
    <<120005, 120069>>, <<120071, 120074>>, <<120077, 120084>>,
    <<120086, 120092>>, <<120094, 120121>>, <<120123, 120126>>,
    <<120128, 120132>>, <<120134, 120134>>, <<120138, 120144>>,
    <<120146, 120485>>, <<120488, 120512>>, <<120514, 120538>>,
    <<120540, 120570>>, <<120572, 120596>>, <<120598, 120628>>,
    <<120630, 120654>>, <<120656, 120686>>, <<120688, 120712>>,
    <<120714, 120744>>, <<120746, 120770>>, <<120772, 120779>>,
    <<120782, 120831>>, <<122624, 122654>>, <<123136, 123180>>,
    <<123191, 123197>>, <<123200, 123209>>, <<123214, 123214>>,
    <<123536, 123565>>, <<123584, 123627>>, <<123632, 123641>>,
    <<124896, 124902>>, <<124904, 124907>>, <<124909, 124910>>,
    <<124912, 124926>>, <<124928, 125124>>, <<125127, 125135>>,
    <<125184, 125251>>, <<125259, 125259>>, <<125264, 125273>>,
    <<126065, 126123>>, <<126125, 126127>>, <<126129, 126132>>,
    <<126209, 126253>>, <<126255, 126269>>, <<126464, 126467>>,
    <<126469, 126495>>, <<126497, 126498>>, <<126500, 126500>>,
    <<126503, 126503>>, <<126505, 126514>>, <<126516, 126519>>,
    <<126521, 126521>>, <<126523, 126523>>, <<126530, 126530>>,
    <<126535, 126535>>, <<126537, 126537>>, <<126539, 126539>>,
    <<126541, 126543>>, <<126545, 126546>>, <<126548, 126548>>,
    <<126551, 126551>>, <<126553, 126553>>, <<126555, 126555>>,
    <<126557, 126557>>, <<126559, 126559>>, <<126561, 126562>>,
    <<126564, 126564>>, <<126567, 126570>>, <<126572, 126578>>,
    <<126580, 126583>>, <<126585, 126588>>, <<126590, 126590>>,
    <<126592, 126601>>, <<126603, 126619>>, <<126625, 126627>>,
    <<126629, 126633>>, <<126635, 126651>>, <<127232, 127244>>,
    <<130032, 130041>>, <<131072, 173791>>, <<173824, 177976>>,
    <<177984, 178205>>, <<178208, 183969>>, <<183984, 191456>>,
    <<194560, 195101>>, <<196608, 201546>>}

\* the characters outside ASCII that are decimal digits (category Nd)
UnicodeDecimal == {
    <<1632, 1641>>, <<1776, 1785>>, <<1984, 1993>>, <<2406, 2415>>,
    <<2534, 2543>>, <<2662, 2671>>, <<2790, 2799>>, <<2918, 2927>>,
    <<3046, 3055>>, <<3174, 3183>>, <<3302, 3311>>, <<3430, 3439>>,
    <<3558, 3567>>, <<3664, 3673>>, <<3792, 3801>>, <<3872, 3881>>,
    <<4160, 4169>>, <<4240, 4249>>, <<6112, 6121>>, <<6160, 6169>>,
    <<6470, 6479>>, <<6608, 6617>>, <<6784, 6793>>, <<6800, 6809>>,
    <<6992, 7001>>, <<7088, 7097>>, <<7232, 7241>>, <<7248, 7257>>,
    <<42528, 42537>>, <<43216, 43225>>, <<43264, 43273>>, <<43472, 43481>>,
    <<43504, 43513>>, <<43600, 43609>>, <<44016, 44025>>, <<65296, 65305>>,
    <<66720, 66729>>, <<68912, 68921>>, <<69734, 69743>>, <<69872, 69881>>,
    <<69942, 69951>>, <<70096, 70105>>, <<70384, 70393>>, <<70736, 70745>>,
    <<70864, 70873>>, <<71248, 71257>>, <<71360, 71369>>, <<71472, 71481>>,
    <<71904, 71913>>, <<72016, 72025>>, <<72784, 72793>>, <<73040, 73049>>,
    <<73120, 73129>>, <<92768, 92777>>, <<92864, 92873>>, <<93008, 93017>>,
    <<120782, 120831>>, <<123200, 123209>>, <<123632, 123641>>,
    <<125264, 125273>>, <<130032, 130041>>}

\* the regex class \s of a str pattern: the characters for which
\* str.isspace() holds.  In order: tab, line feed, vertical tab, form feed,
\* carriage return; the separators U+001C to U+001F; the blank; U+0085;
\* U+00A0; U+1680; U+2000 to U+200A; U+2028; U+2029; U+202F; U+205F; U+3000
IsSpace(c) ==
    \/ c \in 9..13
    \/ c \in 28..32
    \/ c \in {133, 160, 5760}
    \/ c \in 8192..8202
    \/ c \in {8232, 8233, 8239, 8287, 12288}

\* the regex class [A-Za-z]
IsAlpha(c) == c \in Ord("A")..Ord("Z") \/ c \in Ord("a")..Ord("z")

\* the regex class \d of a str pattern: the decimal digits of Unicode
IsDecimal(c) == c \in Zero..Nine \/ (c > 127 /\ InRanges(c, UnicodeDecimal))

\* the regex class \w of a str pattern: the alphanumeric characters of
\* Unicode and the underscore
IsWord(c) ==
    \/ IsAlpha(c)
    \/ c \in Zero..Nine
    \/ c = Underscore
    \/ (c > 127 /\ InRanges(c, UnicodeAlnum))

\* all texts over alphabet A of length at most n
Texts(A, n) == UNION {[1..k -> A] : k \in 0..n}

\* first index >= i of s whose character is not white space (Len(s)+1 if none)
RECURSIVE SkipSpace(_, _)
SkipSpace(s, i) ==
    IF i <= Len(s) /\ IsSpace(s[i]) THEN SkipSpace(s, i + 1) ELSE i

\* first index >= i of s whose character is not a word character
RECURSIVE SkipWord(_, _)
SkipWord(s, i) ==
    IF i <= Len(s) /\ IsWord(s[i]) THEN SkipWord(s, i + 1) ELSE i

\* first index >= i of s holding character c (Len(s)+1 if none)
RECURSIVE Find(_, _, _)
Find(s, c, i) ==
    IF i <= Len(s) /\ s[i] # c THEN Find(s, c, i + 1) ELSE i

Contains(s, c) == \E i \in 1..Len(s) : s[i] = c
AllSpace(s) == \A i \in 1..Len(s) : IsSpace(s[i])

\* the suffix of s from index i on
From(s, i) == SubSeq(s, i, Len(s))

\* p is the start of q (str.startswith, and a path under another)
IsPrefix(p, q) == Len(p) <= Len(q) /\ SubSeq(q, 1, Len(p)) = p

-----------------------------------------------------------------------------
(* key_value_pair: _key_value_regex is, in order: leading white space, a  *)
(* letter followed by word characters (group 1), white space, "=", white   *)
(* space, and the rest of the line (group 2).                              *)

NoMatch == [ok |-> FALSE, groups |-> <<>>]

\* a faulty variant: the value loses all its trailing white space
RECURSIVE KVValue_strips(_)
KVValue_strips(rest) ==
    IF Len(rest) > 0 /\ IsSpace(rest[Len(rest)])
    THEN KVValue_strips(SubSeq(rest, 1, Len(rest) - 1))
    ELSE rest

\* group 2 and the final "$": "." stops at a line break, and "$" matches at
\* the end of the text or just before a line break that ends the text
KVValue(rest) ==
    IF Len(rest) > 0 /\ rest[Len(rest)] = LineFeed
    THEN SubSeq(rest, 1, Len(rest) - 1)
    ELSE rest

key_value_pair(s) ==
    LET i1 == SkipSpace(s, 1)
        i2 == SkipWord(s, i1)
        i3 == SkipSpace(s, i2)
        i4 == SkipSpace(s, i3 + 1)
        v  == KVValue(From(s, i4))
    IN  IF i1 > Len(s) \/ ~IsAlpha(s[i1]) THEN NoMatch
        ELSE IF i3 > Len(s) \/ s[i3] # Equals THEN NoMatch
        ELSE IF Contains(v, LineFeed) THEN NoMatch
        ELSE [ok |-> TRUE, groups |-> <<SubSeq(s, i1, i2 - 1), v>>]

-----------------------------------------------------------------------------
(* column_specifier: _column_specifier_regex is, in order: leading white   *)
(* space, one or more characters other than "(" (group 1), white space, an *)
(* optional group 2 made of "(", one or more characters other than ")"     *)
(* (group 3) and ")", then white space up to the end.  All repetitions are *)
(* greedy.  m.groups() has three members; a group that took no part is     *)
(* None.                                                                   *)

None == [none |-> TRUE, s |-> <<>>]
Some(s) == [none |-> FALSE, s |-> s]

\* where group 1 starts: after the leading white space, unless that leaves
\* group 1 nothing to match, in which case the leading white space gives
\* its last character back
ColNameStart(s, limit) ==
    LET L == SkipSpace(s, 1) IN IF L < limit THEN L ELSE L - 1

column_specifier(s) ==
    LET p == Find(s, LeftParen, 1)
        q == Find(s, RightParen, p + 1)
        a == ColNameStart(s, p)
    IN  IF p > Len(s)
        THEN \* no parenthesis: group 1 runs greedily to the end of the text
             IF Len(s) = 0 THEN NoMatch
             ELSE [ok |-> TRUE, groups |-> <<Some(From(s, a)), None, None>>]
        ELSE IF p = 1 THEN NoMatch
        ELSE IF q > Len(s) \/ q = p + 1 THEN NoMatch
        ELSE IF ~AllSpace(From(s, q + 1)) THEN NoMatch
        ELSE [ok |-> TRUE,
              groups |-> <<Some(SubSeq(s, a, p - 1)),
                           Some(SubSeq(s, p, q)),
                           Some(SubSeq(s, p + 1, q - 1))>>]


-----------------------------------------------------------------------------
(* validate_opts: the number of occurrences of each related option against  *)
(* the number of input files.                                              *)

rel_opts == <<"icolumns", "irenames", "iformat", "I">>

\* n_infiles: 1 when opts.ifile is empty or None, else its length
n_infiles_of(o) == IF Len(o.ifile) = 0 THEN 1 ELSE Len(o.ifile)

\* a faulty variant: the "one occurrence serves all files" case is forgotten
CardinalityMismatch_nobroadcast(n_ropt, n_infiles) == n_ropt # n_infiles

\* the test that raises: n_ropt > 1 and n_ropt != n_infiles
CardinalityMismatch(n_ropt, n_infiles) == n_ropt > 1 /\ n_ropt # n_infiles

\* the loop over rel_opts from position j on; a falsy opt_val (None or an
\* empty list) is skipped
RECURSIVE validate_from(_, _)
validate_from(o, j) ==
    IF j > Len(rel_opts) THEN [ok |-> TRUE, ropt |-> "", n_ropt |-> 0, n_infiles |-> 0]
    ELSE LET opt_val == o[rel_opts[j]]
         IN  IF Len(opt_val) > 0 /\ CardinalityMismatch(Len(opt_val), n_infiles_of(o))
             THEN [ok |-> FALSE, ropt |-> rel_opts[j], n_ropt |-> Len(opt_val),
                   n_infiles |-> n_infiles_of(o)]
             ELSE validate_from(o, j + 1)

\* ok: opts is returned unchanged; not ok: ValueError("Number of --<ropt>(
\* <n_ropt>) mismatches number of --infile(<n_infiles>)!")
validate_opts(o) == validate_from(o, 1)

-----------------------------------------------------------------------------
(* The model document: a tree, held as a function from paths (sequences of *)
(* member names) to nodes.  A node is an object, a string or a number.     *)

Obj == [t |-> "obj", v |-> <<>>]
Str(s) == [t |-> "str", v |-> s]
Num(s) == [t |-> "num", v |-> s]

\* a faulty variant: relative paths are resolved against the root
_model_default_prefix_root == Text(<<"/">>)

\* prepended to a relative path of option -m
_model_default_prefix == Text(<<"/", "e", "n", "g", "i", "n", "e", "/">>)

T_engine == Text(<<"e", "n", "g", "i", "n", "e">>)
T_rpm_idle == Text(<<"r", "p", "m", "_", "i", "d", "l", "e">>)
T_rpm_rated == Text(<<"r", "p", "m", "_", "r", "a", "t", "e", "d">>)
T_p_max == Text(<<"p", "_", "m", "a", "x">>)

\* model.base_model(): a fresh copy of the default document
base_model ==
    (<<>> :> Obj) @@ (<<T_engine>> :> Obj)
    @@ (<<T_engine, T_rpm_idle>> :> Num(Text(<<"7", "0", "0">>)))
    @@ (<<T_engine, T_rpm_rated>> :> Num(Text(<<"3", "0", "0", "0">>)))
    @@ (<<T_engine, T_p_max>> :> Num(Text(<<"6", "6", "0">>)))

\* model.model_validator().validate(mdl): the engine category is an object
\* holding its required scalar fields, each a number
required_fields == {T_rpm_idle, T_rpm_rated, T_p_max}
schema_valid(doc) ==
    /\ <<T_engine>> \in DOMAIN doc
    /\ doc[<<T_engine>>].t = "obj"
    /\ \A f \in required_fields :
          /\ <<T_engine, f>> \in DOMAIN doc
          /\ doc[<<T_engine, f>>].t = "num"

\* a faulty variant: a member that already exists keeps its value (setdefault)
DocSet_keepfirst(doc, path, node) ==
    IF path \in DOMAIN doc THEN doc
    ELSE [q \in DOMAIN doc \cup {path} |-> IF q = path THEN node ELSE doc[q]]

\* parent[part] = value: the member and all that hung from it is replaced
DocSet(doc, path, node) ==
    [q \in {r \in DOMAIN doc : ~IsPrefix(path, r)} \cup {path} |->
        IF q = path THEN node ELSE doc[q]]

-----------------------------------------------------------------------------
(* jsonpointer.set_pointer(mdl, json_path, value), as called by            *)
(* build_and_validate_model.                                               *)

\* the text split at every "/"
RECURSIVE Split(_)
Split(s) ==
    LET i == Find(s, Slash, 1)
    IN  IF i > Len(s) THEN <<s>> ELSE <<SubSeq(s, 1, i - 1)>> \o Split(From(s, i + 1))

\* "~" must be followed by "0" or "1"
InvalidEscape(s) ==
    \E i \in 1..Len(s) : s[i] = Tilde /\ (i = Len(s) \/ s[i + 1] \notin {Zero, One})

\* "~1" stands for "/" and "~0" for "~"
RECURSIVE Unescape(_)
Unescape(s) ==
    IF Len(s) = 0 THEN s
    ELSE IF Len(s) >= 2 /\ s[1] = Tilde /\ s[2] = One THEN <<Slash>> \o Unescape(From(s, 3))
    ELSE IF Len(s) >= 2 /\ s[1] = Tilde /\ s[2] = Zero THEN <<Tilde>> \o Unescape(From(s, 3))
    ELSE <<s[1]>> \o Unescape(From(s, 2))

\* the reference tokens of a pointer; ok is FALSE for a text that is no pointer
PointerParts(pointer) ==
    LET raw == Split(pointer)
    IN  IF InvalidEscape(pointer) \/ Len(raw[1]) # 0
        THEN [ok |-> FALSE, parts |-> <<>>]
        ELSE [ok |-> TRUE, parts |-> [j \in 1..(Len(raw) - 1) |-> Unescape(raw[j + 1])]]

\* an array index: "0", or digits not starting with "0"
IsArrayIndex(tok) ==
    /\ Len(tok) > 0
    /\ \A j \in 1..Len(tok) : tok[j] \in Zero..Nine
    /\ (Len(tok) > 1 => tok[1] # Zero)

\* int(part) of an ASCII digit
DigitValue(c) == c - Zero

RECURSIVE IntOf(_)
IntOf(tok) ==
    IF Len(tok) = 0 THEN 0
    ELSE 10 * IntOf(SubSeq(tok, 1, Len(tok) - 1)) + DigitValue(tok[Len(tok)])

SetFailed(exc) == [ok |-> FALSE, doc |-> <<>>, exc |-> exc]

\* the pointer has led into a string of length n (a sequence, but not one
\* that can be assigned to); rest are the tokens still to resolve
RECURSIVE SetInString(_, _)
SetInString(n, rest) ==
    IF rest[1] = <<Minus>>
    THEN SetFailed(IF Len(rest) = 1 THEN "AttributeError" ELSE "JsonPointerException")
    ELSE IF ~IsArrayIndex(rest[1]) THEN SetFailed("JsonPointerException")
    ELSE IF Len(rest) = 1 THEN SetFailed("TypeError")
    ELSE IF IntOf(rest[1]) >= n THEN SetFailed("JsonPointerException")
    ELSE SetInString(1, Tail(rest))

\* walk from the node at path cur along rest, then assign at the last token
RECURSIVE SetFrom(_, _, _, _)
SetFrom(doc, cur, rest, value) ==
    LET node == doc[cur]
        next == Append(cur, rest[1])
    IN  IF node.t = "num" THEN SetFailed("JsonPointerException")
        ELSE IF node.t = "str" THEN SetInString(Len(node.v), rest)
        ELSE IF Len(rest) = 1
             THEN [ok |-> TRUE, doc |-> DocSet(doc, next, Str(value)), exc |-> ""]
        ELSE IF next \notin DOMAIN doc THEN SetFailed("JsonPointerException")
        ELSE SetFrom(doc, next, Tail(rest), value)

set_pointer(doc, pointer, value) ==
    LET pp == PointerParts(pointer)
    IN  IF ~pp.ok \/ Len(pp.parts) = 0 THEN SetFailed("JsonPointerException")
        ELSE SetFrom(doc, <<>>, pp.parts, value)

-----------------------------------------------------------------------------
(* build_and_validate_model                                                *)

\* functools.reduce(lambda x,y: x+y, model_overrides)
RECURSIVE Flatten(_)
Flatten(ll) == IF Len(ll) = 0 THEN <<>> ELSE Head(ll) \o Flatten(Tail(ll))

\* if not json_path.startswith('/'): json_path = _model_default_prefix + json_path
NormalizePath(json_path) ==
    IF Len(json_path) > 0 /\ json_path[1] = Slash THEN json_path
    ELSE _model_default_prefix \o json_path

\* a faulty variant: the loop stops one pair short
OverlaysLeft_short(i, ovs) == i < Len(ovs)

\* the for loop over model_overrides has a pair left to apply
OverlaysLeft(i, ovs) == i <= Len(ovs)

-----------------------------------------------------------------------------
(* How a call ends. *)

program_name == "fuefit"

NoMessage == [ok |-> TRUE, ropt |-> "", n_ropt |-> 0, n_infiles |-> 0]
NoOutcome == [kind |-> "none", code |-> 0, exc |-> "", prog |-> "", msg |-> NoMessage]
\* the function returned normally
Returned == [NoOutcome EXCEPT !.kind = "return"]
\* an exception left the function
Raised(exc, code, msg) == [kind |-> "raise", code |-> code, exc |-> exc, prog |-> "", msg |-> msg]
\* parser.exit(code, "<program_name>: <text of ex> ..."): the message is
\* written and SystemExit(code) leaves main
Exited(exc, code, msg) ==
    [kind |-> "exit", code |-> code, exc |-> exc, prog |-> program_name, msg |-> msg]

Exception(type) == [type |-> type, code |-> 0, msg |-> NoMessage]
SystemExit(code) == [type |-> "SystemExit", code |-> code, msg |-> NoMessage]
ValueError(msg) == [type |-> "ValueError", code |-> 0, msg |-> msg]

\* a faulty variant: the handlers do not look at DEBUG and always summarize
main_except_nodebug(ex, debug) ==
    IF ex.type = "ValueError" THEN Exited(ex.type, 3, ex.msg)
    ELSE IF ex.type = "ValidationError" THEN Exited(ex.type, 4, ex.msg)
    ELSE Raised(ex.type, ex.code, ex.msg)

\* the except clauses of main.  traceback.print_exception() is called with
\* no argument, which is a TypeError that replaces the SystemExit in flight.
\* An exception no clause names leaves main as it is.
main_except(ex, debug) ==
    IF ex.type = "SystemExit"
    THEN IF debug THEN Raised("TypeError", 0, NoMessage)
         ELSE Raised(ex.type, ex.code, ex.msg)
    ELSE IF ex.type = "ValueError"
    THEN IF debug THEN Raised(ex.type, ex.code, ex.msg)
         ELSE Exited(ex.type, 3, ex.msg)
    ELSE IF ex.type = "ValidationError"
    THEN IF debug THEN Raised(ex.type, ex.code, ex.msg)
         ELSE Exited(ex.type, 4, ex.msg)
    ELSE Raised(ex.type, ex.code, ex.msg)

-----------------------------------------------------------------------------
(* parser.parse_args(argv): the parser setup_args_parser builds, run on a  *)
(* command line, which is a sequence of words.                             *)

\* the attributes of the namespace that main, validate_opts and
\* build_and_validate_model use, at their defaults
EmptyOpts == [ifile |-> <<>>, icolumns |-> <<>>, irenames |-> <<>>, iformat |-> <<>>,
              I |-> <<>>, m |-> <<>>, debug |-> FALSE]

\* choices of -f and -t
iformat_choices ==
    {Text(<<"A", "U", "T", "O">>), Text(<<"C", "S", "V">>), Text(<<"T", "X", "T">>),
     Text(<<"X", "L", "S">>), Text(<<"J", "S", "O", "N">>)}

\* every option string setup_args_parser gives the parser, with the dest of
\* its action (add_help is off)
option_string_actions ==
    {<<Text(<<"-", "i">>), "ifile">>,
     <<Text(<<"-", "-", "i", "f", "i", "l", "e">>), "ifile">>,
     <<Text(<<"-", "c">>), "icolumns">>,
     <<Text(<<"-", "-", "i", "c", "o", "l", "u", "m", "n", "s">>), "icolumns">>,
     <<Text(<<"-", "r">>), "irenames">>,
     <<Text(<<"-", "-", "i", "r", "e", "n", "a", "m", "e", "s">>), "irenames">>,
     <<Text(<<"-", "f">>), "iformat">>,
     <<Text(<<"-", "-", "i", "f", "o", "r", "m", "a", "t">>), "iformat">>,
     <<Text(<<"-", "I">>), "I">>,
     <<Text(<<"-", "m">>), "m">>,
     <<Text(<<"-", "M">>), "M">>,
     <<Text(<<"-", "o">>), "ofile">>,
     <<Text(<<"-", "-", "o", "f", "i", "l", "e">>), "ofile">>,
     <<Text(<<"-", "a">>), "append">>,
     <<Text(<<"-", "-", "a", "p", "p", "e", "n", "d">>), "append">>,
     <<Text(<<"-", "t">>), "oformat">>,
     <<Text(<<"-", "-", "o", "f", "o", "r", "m", "a", "t">>), "oformat">>,
     <<Text(<<"-", "O">>), "O">>,
     <<Text(<<"-", "-", "d", "e", "b", "u", "g">>), "debug">>,
     <<Text(<<"-", "-", "v", "e", "r", "b", "o", "s", "e">>), "verbose">>,
     <<Text(<<"-", "-", "v", "e", "r", "s", "i", "o", "n">>), "version">>,
     <<Text(<<"-", "-", "h", "e", "l", "p">>), "help">>}
option_strings == {p[1] : p \in option_string_actions}
ActionOf(option_string) ==
    (CHOOSE p \in option_string_actions : p[1] = option_string)[2]

\* how many arguments an action takes: "1" for an action without nargs,
\* "+" and "*" as given, "0" for store_true, count, version and help
nargs(dest) ==
    IF dest \in {"ifile", "iformat", "ofile", "append", "oformat"} THEN "1"
    ELSE IF dest \in {"icolumns", "irenames", "I", "m", "O"} THEN "+"
    ELSE IF dest = "M" THEN "*"
    ELSE "0"

\* the files argparse.FileType('r') can open: what the file system holds,
\* and "-", which stands for the standard input
ReadableFiles == {Text(<<"f", "1">>), Text(<<"f", "2">>), <<Minus>>}

\* the word that ends the options of a command line
DashDash == <<Minus, Minus>>

\* one or more decimal digits, or digits, a dot and one or more digits
IsNumber(x) ==
    \/ Len(x) > 0 /\ \A i \in 1..Len(x) : IsDecimal(x[i])
    \/ \E d \in 1..(Len(x) - 1) :
          /\ x[d] = Dot
          /\ \A i \in (1..Len(x)) \ {d} : IsDecimal(x[i])

\* argparse's pattern of a negative number: "-" and a number, up to the end
\* of the word or to a line feed that ends it
negative_number(w) ==
    /\ Len(w) > 0
    /\ w[1] = Minus
    /\ \/ IsNumber(From(w, 2))
       \/ w[Len(w)] = LineFeed /\ IsNumber(SubSeq(w, 2, Len(w) - 1))

\* the option strings a word of two characters or more stands for, each
\* with its explicit argument: a long option abbreviated (with what follows
\* "=", if any), or a short option with its argument attached
get_option_tuples(w) ==
    IF w[2] = Minus
    THEN LET e == Find(w, Equals, 1)
             option_prefix == SubSeq(w, 1, e - 1)
             explicit_arg == IF e > Len(w) THEN None ELSE Some(From(w, e + 1))
         IN  {<<o, explicit_arg>> : o \in {x \in option_strings : IsPrefix(option_prefix, x)}}
    ELSE {<<o, Some(From(w, 3))>> : o \in {x \in option_strings : x = SubSeq(w, 1, 2)}}
         \cup {<<o, None>> :
                 o \in {x \in option_strings : x # SubSeq(w, 1, 2) /\ IsPrefix(w, x)}}

\* how a word is read: as an argument ("A"), or as an option ("O") with its
\* action ("" when the parser has no such option) and explicit argument; an
\* ambiguous abbreviation is an error
Argument == [pattern |-> "A", action |-> "", explicit |-> None]
Option(action, explicit_arg) == [pattern |-> "O", action |-> action, explicit |-> explicit_arg]
Ambiguous == [pattern |-> "error", action |-> "", explicit |-> None]

parse_optional(w) ==
    IF Len(w) = 0 \/ w[1] # Minus THEN Argument
    ELSE IF w \in option_strings THEN Option(ActionOf(w), None)
    ELSE IF Len(w) = 1 THEN Argument
    ELSE IF /\ Contains(w, Equals)
            /\ SubSeq(w, 1, Find(w, Equals, 1) - 1) \in option_strings
         THEN Option(ActionOf(SubSeq(w, 1, Find(w, Equals, 1) - 1)),
                     Some(From(w, Find(w, Equals, 1) + 1)))
    ELSE LET option_tuples == get_option_tuples(w)
         IN  IF Cardinality(option_tuples) > 1 THEN Ambiguous
             ELSE IF Cardinality(option_tuples) = 1
                  THEN LET t == CHOOSE x \in option_tuples : TRUE
                       IN  Option(ActionOf(t[1]), t[2])
             ELSE IF negative_number(w) THEN Argument
             ELSE IF Contains(w, Blank) THEN Argument
             ELSE Option("", None)

\* the pattern of the command line: the first "--" is "-" and every word
\* after it an argument; any other word is read by parse_optional
arg_strings_pattern(words) ==
    [i \in 1..Len(words) |->
        IF \E j \in 1..(i - 1) : words[j] = DashDash THEN Argument
        ELSE IF words[i] = DashDash THEN [pattern |-> "-", action |-> "", explicit |-> None]
        ELSE parse_optional(words[i])]

\* how many words from index i on are arguments, one after the other
RECURSIVE CountArguments(_, _)
CountArguments(pattern, i) ==
    IF i <= Len(pattern) /\ pattern[i].pattern = "A"
    THEN 1 + CountArguments(pattern, i + 1)
    ELSE 0

\* how parse_args ends: a namespace, or parser.error() and parser.exit(),
\* which are SystemExit(2) and SystemExit(0)
Parsed(namespace) == [ok |-> TRUE, code |-> 0, opts |-> namespace]
ParserExit(code) == [ok |-> FALSE, code |-> code, opts |-> EmptyOpts]

\* _get_values drops the first "--" among the argument strings
RECURSIVE RemoveDashDash(_)
RemoveDashDash(args) ==
    IF Len(args) = 0 THEN args
    ELSE IF Head(args) = DashDash THEN Tail(args)
    ELSE <<Head(args)>> \o RemoveDashDash(Tail(args))

\* _get_value and _check_value: the type of the action applied to one
\* argument string, and its choices
get_value(dest, arg_string) ==
    IF dest = "ifile"
    THEN [ok |-> arg_string \in ReadableFiles, value |-> arg_string]
    ELSE IF dest \in {"icolumns", "irenames"}
    THEN LET r == column_specifier(arg_string) IN [ok |-> r.ok, value |-> r.groups]
    ELSE IF dest \in {"I", "m", "M", "O"}
    THEN LET r == key_value_pair(arg_string) IN [ok |-> r.ok, value |-> r.groups]
    ELSE IF dest \in {"iformat", "oformat"}
    THEN [ok |-> arg_string \in iformat_choices, value |-> arg_string]
    ELSE [ok |-> TRUE, value |-> arg_string]

\* _get_values: one value for an action without nargs that has its one
\* argument string, a list of values otherwise; converted holds what
\* _get_value made of each argument string
values_of(dest, converted) ==
    IF nargs(dest) = "1" /\ Len(converted) = 1
    THEN converted[1]
    ELSE [ok |-> \A k \in 1..Len(converted) : converted[k].ok,
          value |-> [k \in 1..Len(converted) |-> converted[k].value]]
get_values(dest, arg_strings) ==
    values_of(dest, [k \in 1..Len(RemoveDashDash(arg_strings)) |->
                        get_value(dest, RemoveDashDash(arg_strings)[k])])

\* the action called with the converted values: append for the options
\* main reads, nothing the program looks at for the others
call_action(dest, argument_values, namespace) ==
    IF ~argument_values.ok THEN ParserExit(2)
    ELSE IF dest \in DOMAIN namespace
         THEN Parsed([namespace EXCEPT ![dest] = Append(@, argument_values.value)])
    ELSE Parsed(namespace)

\* take_action: the values are converted and the action is called
take_action(dest, arg_strings, namespace) ==
    IF dest \in {"help", "version"} THEN ParserExit(0)
    ELSE IF dest = "debug" THEN Parsed([namespace EXCEPT !.debug = TRUE])
    ELSE IF dest = "verbose" THEN Parsed(namespace)
    ELSE call_action(dest, get_values(dest, arg_strings), namespace)

\* the loop of _parse_known_args from word start on, and what follows it;
\* extras tells whether a word was left over.  A turn of the loop skips
\* the words before the next option (they are left over), or reads the
\* option at start (consume_optional); it gives the index the loop goes on
\* from, and what take_action made of the option.
RECURSIVE consume(_, _, _, _, _)
consume(words, pattern, start, namespace, extras) ==
    LET indices == {i \in start..Len(words) : pattern[i].pattern = "O"}
        action == pattern[start].action
        explicit_arg == pattern[start].explicit
        following == CountArguments(pattern, start + 1)
        arg_count == IF nargs(action) = "0" THEN 0
                     ELSE IF nargs(action) = "1" THEN 1
                     ELSE following
        arg_strings == IF explicit_arg.none
                       THEN SubSeq(words, start + 1, start + arg_count)
                       ELSE <<explicit_arg.s>>
    IN  IF indices = {}
        THEN \* the required -i, then the words nobody took
             IF Len(namespace.ifile) = 0 \/ extras \/ start <= Len(words)
             THEN ParserExit(2)
             ELSE Parsed(namespace)
        ELSE CHOOSE r \in
                 {IF turn.taken.ok
                  THEN consume(words, pattern, turn.stop, turn.taken.opts, turn.extras)
                  ELSE turn.taken :
                      turn \in
                          {IF start \notin indices
                           THEN [stop |-> CHOOSE i \in indices : \A j \in indices : i <= j,
                                 taken |-> Parsed(namespace), extras |-> TRUE]
                           ELSE IF action = ""
                           THEN [stop |-> start + 1,
                                 taken |-> Parsed(namespace), extras |-> TRUE]
                           ELSE IF ~explicit_arg.none /\ nargs(action) = "0"
                           THEN [stop |-> start, taken |-> ParserExit(2), extras |-> extras]
                           ELSE IF /\ explicit_arg.none
                                   /\ nargs(action) \in {"1", "+"}
                                   /\ following = 0
                           THEN [stop |-> start, taken |-> ParserExit(2), extras |-> extras]
                           ELSE [stop |-> IF explicit_arg.none
                                          THEN start + 1 + arg_count
                                          ELSE start + 1,
                                 taken |-> take_action(action, arg_strings, namespace),
                                 extras |-> extras]}} : TRUE

\* ok is FALSE when the parser ends the program: by parser.error(), which
\* is SystemExit(2), or by --help and --version, which are SystemExit(0)
parse_args(words) ==
    CHOOSE r \in {IF \E i \in 1..Len(words) : pattern[i].pattern = "error"
                  THEN ParserExit(2)
                  ELSE consume(words, pattern, 1, EmptyOpts, FALSE) :
                      pattern \in {arg_strings_pattern(words)}} : TRUE

-----------------------------------------------------------------------------
(* The inputs. *)

\* command lines of main
Tok_rpm_idle == Text(<<"r", "p", "m", "_", "i", "d", "l", "e", "=", "8", "5", "0">>)
Tok_fuel == Text(<<"f", "u", "e", "l", " ", "=", " ", "p", "e", "t", "r", "o", "l">>)
Tok_abs == Text(<<"/", "n", "o", "n", "e", "x", "i", "s", "t", "e", "n", "t", "/", "f", "o", "o", "=", "1">>)
MTokens == {Tok_rpm_idle, Tok_fuel, Tok_abs}
\* column words: a name, a word the grammar rejects, and a word that starts
\* with "-" as options do
CTokens == {Text(<<"C", "M">>), Text(<<"(", "k", "W", ")">>), Text(<<"-", "x">>)}

\* how a command line may end: with nothing more, with --debug in full or
\* abbreviated, or with --help
TailWords ==
    {<<>>, <<Text(<<"-", "-", "d", "e", "b", "u", "g">>)>>, <<Text(<<"-", "-", "d", "e">>)>>,
     <<Text(<<"-", "-", "h", "e", "l", "p">>)>>}

\* the name of the j-th input file of a command line
FileName(j) == IF j % 2 = 1 THEN Text(<<"f", "1">>) ELSE Text(<<"f", "2">>)

\* the opened files handed to validate_opts by a caller
Files(n) == [j \in 1..n |-> j]

\* the words of the occurrences of one option, each with one argument
Occurrences(option_string, args) ==
    Flatten([j \in 1..Len(args) |-> <<option_string, args[j]>>])

Argvs ==
    {Occurrences(Text(<<"-", "i">>), [j \in 1..n |-> FileName(j)])
     \o Occurrences(Text(<<"-", "c">>), cols)
     \o Occurrences(Text(<<"-", "f">>), [j \in 1..kf |-> Text(<<"C", "S", "V">>)])
     \o Occurrences(Text(<<"-", "m">>), mm)
     \o tail :
        n \in 0..MaxMainFiles, cols \in Texts(CTokens, 1),
        kf \in 0..MaxMainOcc, mm \in Texts(MTokens, MaxMainOverlays), tail \in TailWords}

\* option namespaces handed to validate_opts: occurrence j of an option is
\* named by the option and j
OptValues(name, k) == [j \in 1..k |-> <<name, j>>]
OptsInputs ==
    {[ifile |-> Files(n), icolumns |-> OptValues("icolumns", kc),
      irenames |-> OptValues("irenames", kr), iformat |-> OptValues("iformat", kf),
      I |-> OptValues("I", kI), m |-> <<>>, debug |-> FALSE] :
        n \in 0..MaxFiles, kc \in 0..MaxOpt, kr \in 0..MaxOpt,
        kf \in 0..MaxOpt, kI \in 0..MaxOpt}

\* option namespaces handed to build_and_validate_model
P_rpm_idle == Text(<<"r", "p", "m", "_", "i", "d", "l", "e">>)
P_fuel == Text(<<"f", "u", "e", "l">>)
P_abs_fuel == Text(<<"/", "e", "n", "g", "i", "n", "e", "/", "f", "u", "e", "l">>)
P_engine == Text(<<"/", "e", "n", "g", "i", "n", "e">>)
P_missing == Text(<<"/", "n", "o", "n", "e", "x", "i", "s", "t", "e", "n", "t", "/", "f", "o", "o">>)
P_root_fuel == Text(<<"/", "f", "u", "e", "l">>)
P_below == Text(<<"f", "u", "e", "l", "/", "0">>)
BuildPaths == {P_rpm_idle, P_fuel, P_abs_fuel, P_root_fuel, P_engine, P_missing, P_below}
BuildValues == {Text(<<"8", "5", "0">>), Text(<<"9", "0", "0">>)}
BuildPairs == BuildPaths \X BuildValues

\* flat cut into occurrences after the positions in cuts, from position i on
RECURSIVE Group(_, _, _)
Group(flat, cuts, i) ==
    IF i > Len(flat) THEN <<>>
    ELSE LET later == {c \in cuts : c >= i /\ c < Len(flat)}
             e == IF later = {} THEN Len(flat)
                  ELSE CHOOSE c \in later : \A d \in later : c <= d
         IN  <<SubSeq(flat, i, e)>> \o Group(flat, cuts, e + 1)

BuildInputs ==
    {[EmptyOpts EXCEPT !.m = Group(flat, cuts, 1)] :
        flat \in Texts(BuildPairs, MaxOverlays), cuts \in SUBSET (1..(MaxOverlays - 1))}

\* the characters of the texts handed to the argument-type parsers; 11 is
\* the vertical tab (white space outside ASCII's blank, tab and line ends)
\* and 233 the letter e with an acute accent (a word character outside ASCII)
KVAlphabet == {Ord("a"), One, Blank, Equals, LineFeed, Slash, 11, 233}
ColAlphabet == {Ord("a"), Blank, LeftParen, RightParen, 11}

-----------------------------------------------------------------------------
(* The calls, step by step. *)

\* an exception raised under main goes through its except clauses; raised
\* under a direct call it reaches the caller as it is
Propagate(ex) ==
    IF entry = "main" THEN main_except(ex, DEBUG) ELSE Raised(ex.type, ex.code, ex.msg)

\* main(argv), up to and including DEBUG = bool(opts.debug)
Main ==
    /\ pc = "idle"
    /\ \E a \in Argvs : \E r \in {parse_args(a)} :
            /\ argv' = a
            /\ entry' = "main"
            /\ opts' = r.opts
            /\ IF r.ok
               THEN /\ DEBUG' = r.opts.debug
                    /\ pc' = "validate_opts"
                    /\ outcome' = NoOutcome
               ELSE /\ DEBUG' = DEBUG
                    /\ pc' = "done"
                    /\ outcome' = main_except(SystemExit(r.code), DEBUG)
    /\ UNCHANGED <<mdl, overrides, idx, nvalidated, returned, arg, parsed>>

\* validate_opts(opts): it raises, or it returns the namespace it was
\* given, which main assigns to opts and a direct caller receives
ValidateOpts ==
    /\ pc = "validate_opts"
    /\ \E r \in {validate_opts(opts)} :
          IF r.ok
          THEN /\ pc' = IF entry = "main" THEN "build" ELSE "done"
               /\ outcome' = IF entry = "main" THEN outcome ELSE Returned
               /\ returned' = IF entry = "main" THEN returned ELSE Append(returned, opts)
          ELSE /\ pc' = "done"
               /\ outcome' = Propagate(ValueError(r))
               /\ returned' = returned
    /\ UNCHANGED <<DEBUG, entry, argv, opts, mdl, overrides, idx, nvalidated,
                   arg, parsed>>

\* the caller of validate_opts calls it again with the same namespace
ValidateOptsAgain ==
    /\ pc = "done"
    /\ entry = "validate_opts"
    /\ outcome.kind = "return"
    /\ Len(returned) < MaxCalls
    /\ pc' = "validate_opts"
    /\ outcome' = NoOutcome
    /\ UNCHANGED <<DEBUG, entry, argv, opts, mdl, overrides, idx, nvalidated,
                   returned, arg, parsed>>

\* build_and_validate_model(opts): mdl = model.base_model() and the reduce
BuildStart ==
    /\ pc = "build"
    /\ mdl' = base_model
    /\ overrides' = Flatten(opts.m)
    /\ idx' = 1
    /\ pc' = "overlay"
    /\ UNCHANGED <<DEBUG, entry, argv, opts, nvalidated, outcome, returned, arg, parsed>>

\* one turn of the for loop over model_overrides
ApplyOverlay ==
    /\ pc = "overlay"
    /\ OverlaysLeft(idx, overrides)
    /\ LET json_path == overrides[idx][1]
           value == overrides[idx][2]
           r == set_pointer(mdl, NormalizePath(json_path), value)
       IN  IF r.ok
           THEN /\ mdl' = r.doc
                /\ idx' = idx + 1
                /\ UNCHANGED <<pc, outcome>>
           ELSE /\ pc' = "done"
                /\ outcome' = Propagate(Exception(r.exc))
                /\ UNCHANGED <<mdl, idx>>
    /\ UNCHANGED <<DEBUG, entry, argv, opts, overrides, nvalidated, returned, arg, parsed>>

\* validator.validate(mdl); return mdl
ValidateModel ==
    /\ pc = "overlay"
    /\ ~OverlaysLeft(idx, overrides)
    /\ nvalidated' = nvalidated + 1
    /\ pc' = "done"
    /\ outcome' = IF schema_valid(mdl) THEN Returned
                  ELSE Propagate(Exception("ValidationError"))
    /\ UNCHANGED <<DEBUG, entry, argv, opts, mdl, overrides, idx, returned, arg, parsed>>

\* main is over; the process may call it again, and DEBUG stays as it was left
MainAgain ==
    /\ pc = "done"
    /\ entry = "main"
    /\ pc' = "idle"
    /\ entry' = "none"
    /\ argv' = <<>>
    /\ opts' = EmptyOpts
    /\ mdl' = <<>>
    /\ overrides' = <<>>
    /\ idx' = 0
    /\ nvalidated' = 0
    /\ outcome' = NoOutcome
    /\ UNCHANGED <<DEBUG, returned, arg, parsed>>

\* key_value_pair(arg), called as an argument type
CallKeyValuePair ==
    /\ pc = "key_value_pair"
    /\ parsed' = key_value_pair(arg)
    /\ pc' = "done"
    /\ UNCHANGED <<DEBUG, entry, argv, opts, mdl, overrides, idx, nvalidated,
                   outcome, returned, arg>>

\* column_specifier(arg), called as an argument type
CallColumnSpecifier ==
    /\ pc = "column_specifier"
    /\ parsed' = column_specifier(arg)
    /\ pc' = "done"
    /\ UNCHANGED <<DEBUG, entry, argv, opts, mdl, overrides, idx, nvalidated,
                   outcome, returned, arg>>

-----------------------------------------------------------------------------
(* The specifications. *)

\* what every specification starts from: the module has just been loaded
Loaded ==
    /\ DEBUG = TRUE
    /\ argv = <<>>
    /\ mdl = <<>>
    /\ overrides = <<>>
    /\ idx = 0
    /\ nvalidated = 0
    /\ outcome = NoOutcome
    /\ returned = <<>>
    /\ parsed = NoMatch

\* a process that calls main, any number of times
Init ==
    /\ Loaded
    /\ pc = "idle"
    /\ entry = "none"
    /\ opts = EmptyOpts
    /\ arg = <<>>
Next == Main \/ ValidateOpts \/ BuildStart \/ ApplyOverlay \/ ValidateModel \/ MainAgain
Spec == Init /\ [][Next]_vars

\* a caller of validate_opts
InitOpts ==
    /\ Loaded
    /\ pc = "validate_opts"
    /\ entry = "validate_opts"
    /\ opts \in OptsInputs
    /\ arg = <<>>
NextOpts == ValidateOpts \/ ValidateOptsAgain
SpecOpts == InitOpts /\ [][NextOpts]_vars

\* a caller of build_and_validate_model
InitBuild ==
    /\ Loaded
    /\ pc = "build"
    /\ entry = "build_and_validate_model"
    /\ opts \in BuildInputs
    /\ arg = <<>>
NextBuild == BuildStart \/ ApplyOverlay \/ ValidateModel
SpecBuild == InitBuild /\ [][NextBuild]_vars

\* a caller of key_value_pair
InitKV ==
    /\ Loaded
    /\ pc = "key_value_pair"
    /\ entry = "key_value_pair"
    /\ opts = EmptyOpts
    /\ arg \in Texts(KVAlphabet, MaxKVLen)
NextKV == CallKeyValuePair
SpecKV == InitKV /\ [][NextKV]_vars

\* a caller of column_specifier
InitCol ==
    /\ Loaded
    /\ pc = "column_specifier"
    /\ entry = "column_specifier"
    /\ opts = EmptyOpts
    /\ arg \in Texts(ColAlphabet, MaxColLen)
NextCol == CallColumnSpecifier
SpecCol == InitCol /\ [][NextCol]_vars

-----------------------------------------------------------------------------
(* What the properties below are stated with. *)

\* s without its leading white space, without its trailing white space, and
\* without both
LStrip(s) == From(s, SkipSpace(s, 1))
RECURSIVE RStrip(_)
RStrip(s) ==
    IF Len(s) > 0 /\ IsSpace(s[Len(s)]) THEN RStrip(SubSeq(s, 1, Len(s) - 1)) ELSE s
Strip(s) == RStrip(LStrip(s))

\* the number of input files a namespace stands for
FileCount(o) == IF o.ifile = <<>> THEN 1 ELSE Len(o.ifile)
\* option number j of the namespace breaks the cardinality rule
Offending(o, j) == Len(o[rel_opts[j]]) \notin {0, 1, FileCount(o)}

\* the node a pointer leads to in a document
Missing == [t |-> "missing", v |-> <<>>]
Lookup(doc, pointer) ==
    LET pp == PointerParts(pointer)
    IN  IF pp.ok /\ pp.parts \in DOMAIN doc THEN doc[pp.parts] ELSE Missing

\* where the write of an overlay path is meant to go
ExpectedTarget(path) ==
    IF path # <<>> /\ Head(path) = Slash
    THEN path
    ELSE Text(<<"/", "e", "n", "g", "i", "n", "e", "/">>) \o path

-----------------------------------------------------------------------------
(* The properties. *)

\* C1: validate_opts succeeds exactly when every related option occurs 0, 1
\* or n times, n being the number of input files (1 when none is given);
\* otherwise it raises a ValueError whose message names the first offending
\* option in the order icolumns, irenames, iformat, I, with its count and n.
C1_CardinalityRule ==
    pc = "done" =>
        /\ (outcome.kind # "raise") <=> (\A j \in 1..Len(rel_opts) : ~Offending(opts, j))
        /\ outcome.kind = "raise" =>
              /\ outcome.exc = "ValueError"
              /\ \E j \in 1..Len(rel_opts) :
                    /\ Offending(opts, j)
                    /\ \A i \in 1..(j - 1) : ~Offending(opts, i)
                    /\ outcome.msg.ropt = rel_opts[j]
                    /\ outcome.msg.n_ropt = Len(opts[rel_opts[j]])
                    /\ outcome.msg.n_infiles = FileCount(opts)

\* three files, icolumns given once, irenames three times, iformat twice:
\* the ValueError names iformat
C1_Witness ==
    /\ pc = "done"
    /\ Len(opts.ifile) = 3
    /\ Len(opts.icolumns) = 1
    /\ Len(opts.irenames) = 3
    /\ Len(opts.iformat) = 2
    /\ outcome.kind = "raise"
    /\ outcome.msg.ropt = "iformat"

\* C2: in the document build_and_validate_model returns, every path an
\* overlay addressed holds the value of the last overlay, in command-line
\* order, that addressed the same normalized path.
C2_LastWriterWins ==
    outcome.kind = "return" =>
        \A j \in 1..Len(overrides) :
            LET target == ExpectedTarget(overrides[j][1])
                same == {i \in 1..Len(overrides) : ExpectedTarget(overrides[i][1]) = target}
                last == CHOOSE i \in same : \A k \in same : k <= i
            IN  Lookup(mdl, target) = Str(overrides[last][2])

\* two occurrences of -m write 850 and then 900 to the same member, once by
\* its relative and once by its absolute path, and the document is returned
C2_Witness ==
    /\ outcome.kind = "return"
    /\ Len(opts.m) = 2
    /\ overrides = <<<<P_fuel, Text(<<"8", "5", "0">>)>>, <<P_abs_fuel, Text(<<"9", "0", "0">>)>>>>
    /\ mdl[<<T_engine, P_fuel>>] = Str(Text(<<"9", "0", "0">>))

\* C3: the document is validated at most once per call and only after the
\* last overlay; it is not validated when an overlay fails; a call that got
\* through every overlay validates exactly once; and a document is returned
\* only when that validation succeeded.
C3_ValidatedOnceAfterOverlays ==
    /\ nvalidated <= 1
    /\ nvalidated = 1 => (pc = "done" /\ idx = Len(overrides) + 1)
    /\ (pc = "done" /\ idx <= Len(overrides)) => (nvalidated = 0 /\ outcome.kind = "raise")
    /\ (pc = "done" /\ idx = Len(overrides) + 1) => nvalidated = 1
    /\ outcome.kind = "return" => (nvalidated = 1 /\ schema_valid(mdl))

\* a call with two overlays that ends in a ValidationError after its one
\* validation
C3_Witness ==
    /\ pc = "done"
    /\ Len(overrides) = 2
    /\ idx = 3
    /\ nvalidated = 1
    /\ outcome.kind = "raise"
    /\ outcome.exc = "ValidationError"

\* C4: once the command line has parsed, a cardinality mismatch ends main
\* with exit code 3 and a schema validation failure with exit code 4, each
\* with a message that starts with the program name, when --debug is off;
\* when --debug is on the ValueError or ValidationError leaves main as it
\* is and no exit code 3 or 4 is produced.
C4_DebugDecidesFailure ==
    (pc = "done" /\ entry = "main" /\ Len(opts.ifile) > 0) =>
        LET mismatch == \E j \in 1..Len(rel_opts) : Offending(opts, j)
            invalid == nvalidated = 1 /\ ~schema_valid(mdl)
            failure == IF mismatch THEN "ValueError" ELSE "ValidationError"
        IN  /\ (mismatch \/ invalid) =>
                 IF opts.debug
                 THEN outcome.kind = "raise" /\ outcome.exc = failure
                 ELSE /\ outcome.kind = "exit"
                      /\ outcome.code = (IF mismatch THEN 3 ELSE 4)
                      /\ outcome.prog = program_name
                      /\ outcome.exc = failure
            /\ opts.debug => outcome.kind # "exit"

\* --debug is off, the overlay rpm_idle=850 makes the document invalid, and
\* main ends with exit code 4
C4_Witness ==
    /\ pc = "done"
    /\ entry = "main"
    /\ ~opts.debug
    /\ overrides = <<<<T_rpm_idle, Text(<<"8", "5", "0">>)>>>>
    /\ outcome.kind = "exit"
    /\ outcome.code = 4

\* a -m token the KEY=VALUE grammar rejects, or a -c token the column-spec
\* grammar rejects
MalformedToken(words) ==
    \E i \in 1..(Len(words) - 1) :
        \/ words[i] = Text(<<"-", "m">>) /\ ~key_value_pair(words[i + 1]).ok
        \/ words[i] = Text(<<"-", "c">>) /\ ~column_specifier(words[i + 1]).ok

\* C5: a command line with a malformed token ends main with the argument
\* parser's SystemExit, code 2, whatever DEBUG was when main was entered.
C5_MalformedSyntaxExits2 ==
    (pc = "done" /\ entry = "main" /\ MalformedToken(argv)) =>
        (outcome.kind = "raise" /\ outcome.exc = "SystemExit" /\ outcome.code = 2)

\* the command line is well formed but for one -m token whose path goes
\* through a container the document does not have
OnlyMissingContainer(words) ==
    words = <<Text(<<"-", "i">>), FileName(1), Text(<<"-", "m">>), Tok_abs>>

\* C6: with debug off, an overlay through a missing container reaches the
\* boundary of main as a path-resolution failure: a message that starts with
\* the program name and an exit code of its own.
C6_MissingContainerSurfaced ==
    (pc = "done" /\ entry = "main" /\ ~DEBUG /\ OnlyMissingContainer(argv)) =>
        /\ outcome.kind = "exit"
        /\ outcome.exc = "JsonPointerException"
        /\ outcome.prog = program_name
        /\ outcome.code \notin {0, 2, 3, 4}

\* C7: an overlay that was applied wrote to its path when that starts with
\* "/", and to "/engine/" followed by its path otherwise, and what it left
\* there is its value as a string, character for character.
C7_NormalizedRawWrite ==
    idx > 1 =>
        Lookup(mdl, ExpectedTarget(overrides[idx - 1][1])) = Str(overrides[idx - 1][2])

\* rpm_idle=850 then /fuel=900: the string "850" is at /engine/rpm_idle
\* and "900" at /fuel, and the number the base document held is gone
C7_Witness ==
    /\ idx = 3
    /\ overrides = <<<<P_rpm_idle, Text(<<"8", "5", "0">>)>>, <<P_root_fuel, Text(<<"9", "0", "0">>)>>>>
    /\ mdl[<<T_engine, T_rpm_idle>>] = Str(Text(<<"8", "5", "0">>))
    /\ mdl[<<P_fuel>>] = Str(Text(<<"9", "0", "0">>))

\* the value a namespace holds for file i (counted from 0) of a related
\* option: member i of the list of the option, if the list has one
ValueForFile(o, name, i) ==
    IF i + 1 \in 1..Len(o[name])
    THEN [held |-> TRUE, value |-> o[name][i + 1]]
    ELSE [held |-> FALSE, value |-> <<>>]

\* the default of a related option, a value no occurrence is (occurrences
\* are numbered from 1)
DefaultValue(name) == <<name, 0>>

\* C8: after validate_opts has succeeded for n input files, what it gave
\* back holds for every file i in 0..n-1 and every related option a value:
\* the default when the option was not supplied, the one supplied value
\* when it was supplied once, the i-th supplied value when it was supplied
\* n times; and calling it again with the same namespace gives back the
\* same.
C8_PerFileResolution ==
    (pc = "done" /\ entry = "validate_opts" /\ outcome.kind = "return") =>
        /\ \A c \in 1..Len(returned) :
              \A i \in 0..(FileCount(opts) - 1) : \A j \in 1..Len(rel_opts) :
                  LET name == rel_opts[j]
                      supplied == opts[name]
                      got == ValueForFile(returned[c], name, i)
                  IN  /\ got.held
                      /\ got.value = IF Len(supplied) = 0 THEN DefaultValue(name)
                                     ELSE IF Len(supplied) = 1 THEN supplied[1]
                                     ELSE supplied[i + 1]
        /\ \A c \in 1..Len(returned) : returned[c] = returned[1]

\* C9 as stated: key, "=" and value put together give back the input
\* without its surrounding white space.
C9_RoundTripSurrounding ==
    (pc = "done" /\ parsed.ok) =>
        parsed.groups[1] \o <<Equals>> \o parsed.groups[2] = Strip(arg)

\* the input without its leading white space, without the white space on
\* either side of its first "=", and without one line break at its end
KVNormalized(s) ==
    LET e == Find(s, Equals, 1)
        right == LStrip(From(s, e + 1))
    IN  Strip(SubSeq(s, 1, e - 1)) \o <<Equals>>
        \o (IF right # <<>> /\ right[Len(right)] = LineFeed
            THEN SubSeq(right, 1, Len(right) - 1) ELSE right)

\* C9, amended: key, "=" and value put together give back the input without
\* its leading white space, without the white space on either side of its
\* first "=" and without one final line break; white space at the end of the
\* input stays in the value.  The key holds no "=", so the split is at the
\* first one.
C9_RoundTripAmended ==
    (pc = "done" /\ parsed.ok) =>
        /\ parsed.groups[1] \o <<Equals>> \o parsed.groups[2] = KVNormalized(arg)
        /\ ~Contains(parsed.groups[1], Equals)

\* "a=1 " is accepted and its value keeps the trailing blank
C9_Witness ==
    /\ pc = "done"
    /\ arg = Text(<<"a", "=", "1", " ">>)
    /\ parsed.ok
    /\ parsed.groups = <<Text(<<"a">>), Text(<<"1", " ">>)>>

\* C10: the name column_specifier gives is the text before the optional
\* parenthesized group without its surrounding white space, and is not
\* empty; the units are the text inside the parentheses, or None without a
\* group; empty or blank input is rejected.
C10_NameTrimmed ==
    pc = "done" =>
        LET p == Find(arg, LeftParen, 1)
            name == Strip(SubSeq(arg, 1, p - 1))
            groups == parsed.groups
        IN  /\ AllSpace(arg) => ~parsed.ok
            /\ parsed.ok =>
                  /\ name # <<>>
                  /\ groups[1] = Some(name)
                  /\ groups[Len(groups)] =
                        (IF p > Len(arg) THEN None
                         ELSE Some(SubSeq(arg, p + 1, Find(arg, RightParen, p + 1) - 1)))

====
